---- MODULE Spec2Model ----
(***************************************************************************)
(* Model of the trading-session orchestration of Trading_bot:             *)
(*   main.py            the registry (session_manager, active_websocket)   *)
(*                      and the HTTP / WebSocket handlers                  *)
(*   session_manager.py SessionManager: start_trading, stop_trading,       *)
(*                      _trading_loop, _stream_data / on_kline_update      *)
(*   strategy_engine.py evaluate_strategy, generate_signal                 *)
(*   utils.py           calculate_rsi, calculate_sma                       *)
(*   fake_wallet.py     load_wallet, save_wallet, buy, sell, get_balance   *)
(*   summary_report.py  generate_summary                                   *)
(*                                                                         *)
(* The handlers run as asyncio coroutines on one thread: the code between  *)
(* two suspension points (await of something that really suspends) is one  *)
(* atomic action.  Amounts (prices, quantities, balances, indicators) are  *)
(* exact rationals <<numerator, denominator>>; float rounding is not       *)
(* modelled.  Timestamps of ledger and summary records are left out.       *)
(***************************************************************************)
EXTENDS Integers, Sequences, FiniteSets, TLC

(***************************************************************************)
(* Bounds of the model.  The history cap and the indicator periods are the *)
(* program's 500 / 20 / 14 scaled down so that the checker can enumerate   *)
(* histories; the relations rsi_period + 1 <= sma_period <= cap are kept.  *)
(***************************************************************************)
MaxSessions == 2          \* SessionManager objects ever constructed
MaxSockets  == 2          \* observer WebSocket connections ever accepted
SessionSockets   == 1     \* ... of which Spec uses this many (with all the sessions)
ObserverSessions == 1     \* SpecObservers uses all the sockets and this many sessions
MaxCandles  == 2          \* closed candles the feed delivers in a run
HistoryCap  == 4          \* session_manager.py:98 (500) and :33 (limit=500)
sma_period  == 4          \* strategy_engine.py:25 (20)
rsi_period  == 2          \* strategy_engine.py:25 (14)
MaxHistory  == 5          \* longest history handed to a function called directly
MaxTrades   == 3          \* records in the trade history after which direct calls stop

\* Program constants.
EvalSleep      == 5       \* session_manager.py:77
IdleSleep      == 1       \* session_manager.py:55
MinPoints      == 2       \* session_manager.py:54
InitialBalance == 1000    \* fake_wallet.py:31
FallbackDiv    == 100     \* session_manager.py:84
RsiLow         == 30      \* strategy_engine.py:15
RsiHigh        == 70      \* strategy_engine.py:17

SIDs == 1..MaxSessions
WIDs == 1..MaxSockets
NoSession == 0            \* None in session_manager / active_websocket slots
NoSocket  == 0

(***************************************************************************)
(* Exact rational arithmetic for the float amounts.                        *)
(***************************************************************************)
RECURSIVE Gcd(_, _)
Gcd(a, b) == IF b = 0 THEN a ELSE Gcd(b, a % b)

Abs(x) == IF x < 0 THEN -x ELSE x

\* F(v) with v evaluated once (operator arguments are otherwise re-evaluated at
\* every use, which is exponential in the nesting of the arithmetic).
Eval(v, F(_)) == CHOOSE r \in {F(x) : x \in {v}} : TRUE

Norm(n, d) ==
    Eval(<<n, d>>, LAMBDA p :
        LET g == Gcd(Abs(p[1]), Abs(p[2]))
            s == IF p[2] < 0 THEN -1 ELSE 1
        IN  IF p[1] = 0 THEN <<0, 1>> ELSE <<s * (p[1] \div g), s * (p[2] \div g)>>)

R(n)       == <<n, 1>>
RAdd(x, y) == Eval(<<x, y>>, LAMBDA p :
                  Norm(p[1][1] * p[2][2] + p[2][1] * p[1][2], p[1][2] * p[2][2]))
RSub(x, y) == Eval(<<x, y>>, LAMBDA p :
                  Norm(p[1][1] * p[2][2] - p[2][1] * p[1][2], p[1][2] * p[2][2]))
RMul(x, y) == Eval(<<x, y>>, LAMBDA p : Norm(p[1][1] * p[2][1], p[1][2] * p[2][2]))
RDiv(x, y) == Eval(<<x, y>>, LAMBDA p : Norm(p[1][1] * p[2][2], p[1][2] * p[2][1]))
RLt(x, y)  == Eval(<<x, y>>, LAMBDA p : p[1][1] * p[2][2] < p[2][1] * p[1][2])
RLeq(x, y) == Eval(<<x, y>>, LAMBDA p : p[1][1] * p[2][2] <= p[2][1] * p[1][2])
RZero      == R(0)
None       == <<0, 0>>     \* Python None for an indicator value

RECURSIVE RSum(_)
RSum(s) == IF s = <<>> THEN RZero ELSE RAdd(Head(s), RSum(Tail(s)))

\* s[-n:] of Python: the last n elements (all of s when it is shorter).
LastN(s, n) == IF Len(s) <= n THEN s ELSE SubSeq(s, Len(s) - n + 1, Len(s))

Max(a, b) == IF a >= b THEN a ELSE b

(***************************************************************************)
(* utils.py: indicators over a list of closes (integers).                  *)
(***************************************************************************)
\* np.diff(prices)
Deltas(prices) == [i \in 1..(Len(prices) - 1) |-> prices[i + 1] - prices[i]]

RMean(s) == RDiv(RSum([i \in 1..Len(s) |-> R(s[i])]), R(Len(s)))

\* Mutant of calculate_rsi: the averages run over all the deltas, not the last `period`.
calculate_rsi_all_deltas(prices, period) ==
    IF Len(prices) < period + 1 THEN R(50)
    ELSE LET deltas   == Deltas(prices)
             gains    == [i \in 1..Len(deltas) |-> IF deltas[i] > 0 THEN deltas[i] ELSE 0]
             losses   == [i \in 1..Len(deltas) |-> IF deltas[i] < 0 THEN -deltas[i] ELSE 0]
             avg_gain == RMean(gains)
             avg_loss == RMean(losses)
         IN  IF avg_loss = RZero THEN R(100)
             ELSE LET rs == RDiv(avg_gain, avg_loss)
                  IN  RSub(R(100), RDiv(R(100), RAdd(R(1), rs)))

calculate_rsi(prices, period) ==
    IF Len(prices) < period + 1 THEN R(50)
    ELSE LET deltas   == Deltas(prices)
             gains    == [i \in 1..Len(deltas) |-> IF deltas[i] > 0 THEN deltas[i] ELSE 0]
             losses   == [i \in 1..Len(deltas) |-> IF deltas[i] < 0 THEN -deltas[i] ELSE 0]
             avg_gain == RMean(LastN(gains, period))
             avg_loss == RMean(LastN(losses, period))
         IN  IF avg_loss = RZero THEN R(100)
             ELSE LET rs == RDiv(avg_gain, avg_loss)
                  IN  RSub(R(100), RDiv(R(100), RAdd(R(1), rs)))

calculate_sma(prices, period) ==
    IF Len(prices) < period THEN RMean(prices)
    ELSE RMean(LastN(prices, period))

(***************************************************************************)
(* strategy_engine.py                                                      *)
(***************************************************************************)
\* Mutant of generate_signal: BUY on either condition.
generate_signal_either(price, rsi_value, sma_value) ==
    IF RLt(rsi_value, R(RsiLow)) \/ RLt(sma_value, price) THEN "BUY"
    ELSE IF RLt(R(RsiHigh), rsi_value) \/ RLt(price, sma_value) THEN "SELL"
    ELSE "HOLD"

generate_signal(price, rsi_value, sma_value) ==
    IF RLt(rsi_value, R(RsiLow)) /\ RLt(sma_value, price) THEN "BUY"
    ELSE IF RLt(R(RsiHigh), rsi_value) \/ RLt(price, sma_value) THEN "SELL"
    ELSE "HOLD"

\* Mutant of evaluate_strategy: no test of the length of the history.
evaluate_strategy_unguarded(closes) ==
    IF closes = <<>> THEN <<"HOLD", None, None>>
    ELSE LET sma == calculate_sma(closes, sma_period)
             rsi == calculate_rsi(closes, rsi_period)
             current_price == R(closes[Len(closes)])
         IN  <<generate_signal(current_price, rsi, sma), rsi, sma>>

\* Returns (signal, rsi, sma).
evaluate_strategy(closes) ==
    IF Len(closes) < Max(sma_period, rsi_period) THEN <<"HOLD", None, None>>
    ELSE LET sma == calculate_sma(closes, sma_period)
             rsi == calculate_rsi(closes, rsi_period)
             current_price == R(closes[Len(closes)])
         IN  <<generate_signal(current_price, rsi, sma), rsi, sma>>

(***************************************************************************)
(* fake_wallet.py: the ledger operations as functions of the wallet read   *)
(* by load_wallet; the caller saves the returned wallet (save_wallet).     *)
(***************************************************************************)
DefaultWallet ==
    [balance |-> R(InitialBalance), open_positions |-> <<>>, trade_history |-> <<>>]

\* Mutant of buy: the balance is not compared with the cost.
buy_unchecked(w, symbol, price, quantity) ==
    LET cost == RMul(price, quantity)
    IN  [ok |-> TRUE,
         wallet |->
           [balance |-> RSub(w.balance, cost),
            open_positions |-> Append(w.open_positions,
                [symbol |-> symbol, quantity |-> quantity, entry_price |-> price]),
            trade_history |-> Append(w.trade_history,
                [action |-> "BUY", symbol |-> symbol, quantity |-> quantity,
                 price |-> price, value |-> cost, profit_loss |-> None])]]

\* Returns [ok, wallet]: the return value and the wallet saved (unchanged on failure).
buy(w, symbol, price, quantity) ==
    LET cost == RMul(price, quantity)
    IN  IF RLeq(cost, w.balance)
        THEN [ok |-> TRUE,
              wallet |->
                [balance |-> RSub(w.balance, cost),
                 open_positions |-> Append(w.open_positions,
                     [symbol |-> symbol, quantity |-> quantity, entry_price |-> price]),
                 trade_history |-> Append(w.trade_history,
                     [action |-> "BUY", symbol |-> symbol, quantity |-> quantity,
                      price |-> price, value |-> cost, profit_loss |-> None])]]
        ELSE [ok |-> FALSE, wallet |-> w]

\* The SELL record of one liquidated position.
SellRecord(pos, symbol, price) ==
    LET revenue == RMul(price, pos.quantity)
    IN  [action |-> "SELL", symbol |-> symbol, quantity |-> pos.quantity,
         price |-> price, value |-> revenue,
         profit_loss |-> RSub(revenue, RMul(pos.entry_price, pos.quantity))]

sell(w, symbol, price) ==
    LET positions_to_sell == SelectSeq(w.open_positions, LAMBDA p : p.symbol = symbol)
        records == [i \in 1..Len(positions_to_sell) |->
                       SellRecord(positions_to_sell[i], symbol, price)]
        revenue == RSum([i \in 1..Len(records) |-> records[i].value])
    IN  IF positions_to_sell = <<>>
        THEN [ok |-> FALSE, wallet |-> w]
        ELSE [ok |-> TRUE,
              wallet |->
                [balance |-> RAdd(w.balance, revenue),
                 open_positions |-> SelectSeq(w.open_positions, LAMBDA p : p.symbol # symbol),
                 trade_history |-> w.trade_history \o records]]

get_balance(w) == w.balance

(***************************************************************************)
(* summary_report.py: the record generate_summary saves (the rounded money *)
(* fields and the timestamp are left out).                                 *)
(***************************************************************************)
CountIf(s, Test(_)) == Len(SelectSeq(s, Test))

generate_summary(w, symbol, timeframe, duration) ==
    [symbol |-> symbol, timeframe |-> timeframe, duration |-> duration,
     trades |-> Len(w.trade_history),
     wins   |-> CountIf(w.trade_history,
                    LAMBDA t : t.profit_loss # None /\ RLt(RZero, t.profit_loss)),
     losses |-> CountIf(w.trade_history,
                    LAMBDA t : t.profit_loss # None /\ RLt(t.profit_loss, RZero))]

(***************************************************************************)
(* Inputs the environment can supply.                                      *)
(***************************************************************************)
valid_symbols    == {"BTCUSDT", "ETHUSDT"}      \* binance_client.py:8 (two of the five)
valid_timeframes == {"1m"}                      \* binance_client.py:9 (one of the six)

\* str.upper() / str.lower() on the request strings that occur.
Upper(x) == CASE x = "btcusdt" -> "BTCUSDT" [] OTHER -> x
Lower(x) == CASE x = "1M" -> "1m" [] OTHER -> x

ReqSymbols    == {"btcusdt", "DOGEUSDT"}
ReqTimeframes == {"1M", "2m"}
ReqDurations  == {0, 6}
Prices        == {4, 5}               \* closes of the live candles
\* What get_historical_klines can return: [] on failure, else at most `limit`
\* (= the history cap) closes.
Backfills     == {<<>>, <<1, 5, 4>>}

(***************************************************************************)
(* State.                                                                  *)
(***************************************************************************)
VARIABLES
    session_manager,   \* main.py global: the registered SessionManager or NoSession
    active_websocket,  \* main.py global: the last accepted observer or NoSocket
    sm,                \* sid -> fields of the SessionManager object
    start_pc,          \* sid -> position of start_session/start_trading for it
    loop_pc,           \* sid -> position of its _trading_loop task
    stream_pc,         \* sid -> position of its _stream_data task
    elapsed,           \* sid -> time.time() - start_time when the loop went to sleep
    sleep_left,        \* sid -> seconds of the asyncio.sleep the loop is in
    candles,           \* closed candles the feed has delivered so far
    pending,           \* sid -> the send_text in flight: <<socket, snapshot>> or <<>>
    ws_state,          \* wid -> "new" | "open" | "broken" | "closed" ("unused")
    wallet_exists,     \* data/wallet.json exists and parses
    wallet,            \* contents of data/wallet.json
    summary,           \* contents of data/summary.json: <<>> or <<record>>
    hung,              \* the event-loop thread is blocked on wallet_lock
    shutdown_trace,    \* sid -> what the loop's finally block has done, in order
    executed,          \* sid -> buy/sell calls of its loop that returned True (history)
    call               \* the last direct call of a function: name, arguments, result

vars == <<session_manager, active_websocket, sm, start_pc, loop_pc, stream_pc,
          elapsed, sleep_left, candles, pending, ws_state, wallet_exists,
          wallet, summary, hung, shutdown_trace, executed, call>>

\* The variables of the sessions: objects and tasks.
session_vars == <<sm, start_pc, loop_pc, stream_pc, elapsed, sleep_left, candles,
                  pending, shutdown_trace>>
ledger_vars  == <<wallet_exists, wallet, summary, hung>>
socket_vars  == <<ws_state>>
\* What the handlers and the streaming loop never write.
audit_vars   == <<executed, call>>

\* No function has been called directly.
NoCall == [fn |-> "none", args |-> <<>>, result |-> <<>>]

NoObject ==
    [symbol |-> "", timeframe |-> "", duration |-> 0, websocket |-> NoSocket,
     is_active |-> FALSE, stop_event |-> FALSE, closes |-> <<>>]


\* The state after import of main.py, with `sessions` SessionManager objects and
\* `sockets` observer connections still to come ("unused": beyond the bound).
InitWith(sessions, sockets) ==
    /\ session_manager = NoSession
    /\ active_websocket = NoSocket
    /\ sm = [s \in SIDs |-> NoObject]
    /\ start_pc = [s \in SIDs |-> IF s <= sessions THEN "none" ELSE "unused"]
    /\ loop_pc = [s \in SIDs |-> "none"]
    /\ stream_pc = [s \in SIDs |-> "none"]
    /\ elapsed = [s \in SIDs |-> 0]
    /\ sleep_left = [s \in SIDs |-> 0]
    /\ candles = 0
    /\ pending = [s \in SIDs |-> <<>>]
    /\ ws_state = [w \in WIDs |-> IF w <= sockets THEN "new" ELSE "unused"]
    /\ wallet_exists \in BOOLEAN
    /\ wallet = DefaultWallet
    /\ summary = <<>>
    /\ hung = FALSE
    /\ shutdown_trace = [s \in SIDs |-> <<>>]
    /\ executed = [s \in SIDs |-> 0]
    /\ call = NoCall

Init == InitWith(MaxSessions, SessionSockets)

InitObservers == InitWith(ObserverSessions, MaxSockets)

\* `session_manager and session_manager.is_active`
RegistryActive == session_manager # NoSession /\ sm[session_manager].is_active

\* The SessionManager objects not yet constructed.
Unborn == {s \in SIDs : start_pc[s] = "none"}
NextSid == CHOOSE s \in Unborn : \A u \in Unborn : s <= u

(***************************************************************************)
(* main.py: start_session, up to its first suspension (the await of the    *)
(* backfill inside start_trading).                                         *)
(***************************************************************************)
\* raise HTTPException(status_code=400, detail=...): the handler ends there.
Reject(detail) == UNCHANGED vars

\* SessionManager.__init__ followed by the head of start_trading.
Construct(symbol, timeframe, duration) ==
    /\ Unborn # {}
    /\ LET s == NextSid
       IN  /\ sm' = [sm EXCEPT ![s] =
                       [symbol |-> symbol, timeframe |-> timeframe,
                        duration |-> duration, websocket |-> active_websocket,
                        is_active |-> TRUE, stop_event |-> FALSE, closes |-> <<>>]]
           /\ session_manager' = s
           /\ start_pc' = [start_pc EXCEPT ![s] = "backfill"]
    /\ UNCHANGED <<active_websocket, loop_pc, stream_pc, elapsed, sleep_left, candles,
                   pending, shutdown_trace, ledger_vars, socket_vars>>
    /\ UNCHANGED audit_vars

\* Mutant of start_session: no check of the registry, no validation.
start_session_unguarded(symbol, timeframe, duration) ==
    Construct(Upper(symbol), Lower(timeframe), duration)

\* Mutant of start_session: the registry is checked, the request is not validated.
start_session_unvalidated(symbol, timeframe, duration) ==
    IF RegistryActive
    THEN Reject("A session is already active")
    ELSE Construct(Upper(symbol), Lower(timeframe), duration)

start_session(symbol, timeframe, duration) ==
    IF RegistryActive
    THEN Reject("A session is already active")
    ELSE IF Upper(symbol) \notin valid_symbols
    THEN Reject("Invalid symbol")
    ELSE IF Lower(timeframe) \notin valid_timeframes
    THEN Reject("Invalid timeframe")
    ELSE IF duration <= 0
    THEN Reject("Duration must be a positive integer")
    ELSE Construct(Upper(symbol), Lower(timeframe), duration)

\* start_trading resumes with the backfill and creates the two tasks (gather).
BackfillReturn(s, historical_data) ==
    /\ ~hung
    /\ start_pc[s] = "backfill"
    /\ sm' = [sm EXCEPT ![s].closes =
                 IF historical_data # <<>> THEN historical_data ELSE @]
    /\ start_pc' = [start_pc EXCEPT ![s] = "gather"]
    /\ loop_pc' = [loop_pc EXCEPT ![s] = "start"]
    /\ stream_pc' = [stream_pc EXCEPT ![s] = "streaming"]
    /\ UNCHANGED <<session_manager, active_websocket, elapsed, sleep_left, candles,
                   pending, shutdown_trace, ledger_vars, socket_vars>>
    /\ UNCHANGED audit_vars

\* gather is over: start_trading and then start_session return.
StartReturn(s) ==
    /\ ~hung
    /\ start_pc[s] = "gather"
    /\ loop_pc[s] = "done"
    /\ stream_pc[s] = "done"
    /\ start_pc' = [start_pc EXCEPT ![s] = "returned"]
    /\ UNCHANGED <<session_manager, active_websocket, sm, loop_pc, stream_pc, elapsed,
                   sleep_left, candles, pending, shutdown_trace, ledger_vars,
                   socket_vars>>
    /\ UNCHANGED audit_vars

(***************************************************************************)
(* main.py: stop_session with SessionManager.stop_trading inlined (it has  *)
(* no suspension point).                                                   *)
(***************************************************************************)
stop_trading(s) ==
    sm' = [sm EXCEPT ![s].is_active = FALSE, ![s].stop_event = TRUE]

\* Mutant of StopAccepted: the registry is cleared but stop_trading is not called.
StopForgetsSession ==
    /\ session_manager' = NoSession
    /\ UNCHANGED <<active_websocket, session_vars, ledger_vars, socket_vars>>
    /\ UNCHANGED audit_vars

StopAccepted ==
    /\ stop_trading(session_manager)
    /\ session_manager' = NoSession
    /\ UNCHANGED <<active_websocket, start_pc, loop_pc, stream_pc, elapsed, sleep_left,
                   candles, pending, shutdown_trace, ledger_vars, socket_vars>>
    /\ UNCHANGED audit_vars

\* Mutant of stop_session: the guard tests the reference only, not is_active.
stop_session_ignores_flag ==
    IF session_manager = NoSession
    THEN Reject("No active session to stop")
    ELSE StopAccepted

stop_session ==
    IF ~RegistryActive
    THEN Reject("No active session to stop")
    ELSE StopAccepted

(***************************************************************************)
(* session_manager.py: _trading_loop.  One action is the code from one     *)
(* suspension point (task start, or the end of an asyncio.sleep) to the    *)
(* next sleep or to the end of the finally block.                          *)
(***************************************************************************)
\* load_wallet with the file missing or corrupt calls save_wallet while it holds
\* the non-reentrant wallet_lock: the thread, and the event loop on it, blocks.
Hang ==
    /\ hung' = TRUE
    /\ UNCHANGED <<wallet_exists, wallet, summary>>

\* await asyncio.sleep(seconds): the loop resumes `seconds` later.
Sleep(s, seconds) ==
    /\ loop_pc' = [loop_pc EXCEPT ![s] = "sleeping"]
    /\ sleep_left' = [sleep_left EXCEPT ![s] = seconds]

\* Mutant of Evaluate: every signal other than BUY sells.
Evaluate_sells_unless_buy(s) ==
    LET closes        == sm[s].closes
        signal        == evaluate_strategy(closes)[1]
        current_price == R(closes[Len(closes)])
        balance       == get_balance(wallet)
        quantity      == RDiv(RMul(balance, <<1, 10>>), current_price)
        outcome       == IF signal = "BUY" /\ RLt(RZero, quantity)
                         THEN buy(wallet, sm[s].symbol, current_price, quantity)
                         ELSE sell(wallet, sm[s].symbol, current_price)
    IN  IF ~wallet_exists
        THEN /\ Hang
             /\ UNCHANGED <<loop_pc, sleep_left, executed>>
        ELSE /\ wallet' = outcome.wallet
             /\ executed' = [executed EXCEPT ![s] = IF outcome.ok THEN @ + 1 ELSE @]
             /\ Sleep(s, EvalSleep)
             /\ UNCHANGED <<wallet_exists, summary, hung>>

\* One iteration of the while body with at least MinPoints closes.
Evaluate(s) ==
    LET closes        == sm[s].closes
        signal        == evaluate_strategy(closes)[1]
        current_price == R(closes[Len(closes)])
        balance       == get_balance(wallet)
        quantity      == RDiv(RMul(balance, <<1, 10>>), current_price)
        touches       == signal = "BUY" \/ signal = "SELL"
        outcome       == IF signal = "BUY" /\ RLt(RZero, quantity)
                         THEN buy(wallet, sm[s].symbol, current_price, quantity)
                         ELSE IF signal = "SELL"
                         THEN sell(wallet, sm[s].symbol, current_price)
                         ELSE [ok |-> FALSE, wallet |-> wallet]
    IN  IF touches /\ ~wallet_exists
        THEN /\ Hang
             /\ UNCHANGED <<loop_pc, sleep_left, executed>>
        ELSE /\ wallet' = outcome.wallet
             /\ executed' = [executed EXCEPT ![s] = IF outcome.ok THEN @ + 1 ELSE @]
             /\ Sleep(s, EvalSleep)
             /\ UNCHANGED <<wallet_exists, summary, hung>>

\* The finally block: liquidation, summary, is_active = False.
Shutdown(s) ==
    LET closes        == sm[s].closes
        current_price == IF closes # <<>> THEN R(closes[Len(closes)])
                         ELSE RDiv(get_balance(wallet), R(FallbackDiv))
        outcome       == IF sm[s].is_active
                         THEN sell(wallet, sm[s].symbol, current_price)
                         ELSE [ok |-> FALSE, wallet |-> wallet]
        after         == outcome.wallet
    IN  IF ~wallet_exists
        THEN /\ Hang
             /\ UNCHANGED <<sm, loop_pc, shutdown_trace, executed>>
        ELSE /\ wallet' = after
             /\ executed' = [executed EXCEPT ![s] = IF outcome.ok THEN @ + 1 ELSE @]
             /\ summary' = <<generate_summary(after, sm[s].symbol, sm[s].timeframe,
                                              sm[s].duration)>>
             /\ sm' = [sm EXCEPT ![s].is_active = FALSE]
             /\ loop_pc' = [loop_pc EXCEPT ![s] = "done"]
             /\ shutdown_trace' = [shutdown_trace EXCEPT ![s] =
                                      (IF sm[s].is_active THEN <<"sell">> ELSE <<>>)
                                      \o <<"summary", "stopped">>]
             /\ UNCHANGED <<wallet_exists, hung>>

\* time.time() - start_time when the loop resumes: 0 on its first run, else the
\* time before the sleep plus the sleep (saturated at duration: the loop only
\* compares it with duration).
Now(s) ==
    IF loop_pc[s] = "start" THEN 0
    ELSE IF elapsed[s] + sleep_left[s] > sm[s].duration THEN sm[s].duration
    ELSE elapsed[s] + sleep_left[s]

\* The while condition.
LoopContinues(s) == sm[s].is_active /\ Now(s) < sm[s].duration

TradingLoop(s) ==
    /\ ~hung
    /\ loop_pc[s] \in {"start", "sleeping"}
    /\ elapsed' = [elapsed EXCEPT ![s] = IF LoopContinues(s) THEN Now(s) ELSE 0]
    /\ IF LoopContinues(s)
       THEN IF Len(sm[s].closes) < MinPoints
            THEN /\ Sleep(s, IdleSleep)
                 /\ UNCHANGED <<sm, shutdown_trace, ledger_vars, executed>>
            ELSE /\ Evaluate(s)
                 /\ UNCHANGED <<sm, shutdown_trace>>
       ELSE /\ Shutdown(s)
            /\ sleep_left' = [sleep_left EXCEPT ![s] = 0]
    /\ UNCHANGED <<session_manager, active_websocket, start_pc, stream_pc, candles,
                   pending, socket_vars, call>>

(***************************************************************************)
(* session_manager.py: _stream_data and its callback on_kline_update.      *)
(***************************************************************************)
\* Mutant of AppendClose: the eviction is forgotten.
AppendCloseNoEvict(closes, close_price) == Append(closes, close_price)

\* closes.append(close_price), then pop(0) when longer than the cap.
AppendClose(closes, close_price) ==
    LET appended == Append(closes, close_price)
    IN  IF Len(appended) > HistoryCap THEN Tail(appended) ELSE appended

\* Mutant of Snapshot: the indicators are computed before the close is appended.
Snapshot_before_append(s, closes, close_price) ==
    LET result == evaluate_strategy(sm[s].closes)
    IN  [symbol |-> sm[s].symbol, price |-> close_price, rsi |-> result[2],
         sma |-> result[3], signal |-> result[1], balance |-> get_balance(wallet)]

\* ws_data: the snapshot of a closed candle, over the history that includes it.
Snapshot(s, closes, close_price) ==
    LET result == evaluate_strategy(closes)
    IN  [symbol |-> sm[s].symbol, price |-> close_price, rsi |-> result[2],
         sma |-> result[3], signal |-> result[1], balance |-> get_balance(wallet)]

\* A feed message reaches the callback; it runs up to the await of send_text.
on_kline_update(s, is_closed, close_price) ==
    /\ ~hung
    /\ stream_pc[s] = "streaming"
    /\ IF ~is_closed
       THEN UNCHANGED <<sm, candles, pending, stream_pc, ledger_vars>>
       ELSE /\ candles < MaxCandles
            /\ candles' = candles + 1
            /\ sm' = [sm EXCEPT ![s].closes = AppendClose(@, close_price)]
            /\ IF ~wallet_exists
               THEN /\ Hang
                    /\ UNCHANGED <<pending, stream_pc>>
               ELSE /\ UNCHANGED ledger_vars
                    /\ IF sm[s].websocket # NoSocket
                       THEN /\ pending' = [pending EXCEPT ![s] =
                                   <<sm[s].websocket,
                                     Snapshot(s, sm'[s].closes, close_price)>>]
                            /\ stream_pc' = [stream_pc EXCEPT ![s] = "sending"]
                       ELSE UNCHANGED <<pending, stream_pc>>
    /\ UNCHANGED <<session_manager, active_websocket, start_pc, loop_pc, elapsed,
                   sleep_left, shutdown_trace, socket_vars>>
    /\ UNCHANGED audit_vars

\* Mutant of SendDone: a failed send is not caught in the callback, so it ends
\* stream_live_klines and with it the streaming loop.
SendFailureEndsStream(s) ==
    /\ ~hung
    /\ stream_pc[s] = "sending"
    /\ LET w == pending[s][1]
       IN  IF ws_state[w] = "open"
           THEN /\ stream_pc' = [stream_pc EXCEPT ![s] = "streaming"]
                /\ UNCHANGED sm
           ELSE /\ stream_pc' = [stream_pc EXCEPT ![s] = "done"]
                /\ sm' = [sm EXCEPT ![s].stop_event = TRUE]
    /\ pending' = [pending EXCEPT ![s] = <<>>]
    /\ UNCHANGED <<session_manager, active_websocket, start_pc, loop_pc, elapsed,
                   sleep_left, candles, shutdown_trace, ledger_vars, ws_state>>
    /\ UNCHANGED audit_vars

\* send_text completes: delivered, or it raised and the reference is cleared.
SendDone(s) ==
    /\ ~hung
    /\ stream_pc[s] = "sending"
    /\ LET w == pending[s][1]
       IN  sm' = IF ws_state[w] = "open" THEN sm
                 ELSE [sm EXCEPT ![s].websocket = NoSocket]
    /\ pending' = [pending EXCEPT ![s] = <<>>]
    /\ stream_pc' = [stream_pc EXCEPT ![s] = "streaming"]
    /\ UNCHANGED <<session_manager, active_websocket, start_pc, loop_pc, elapsed,
                   sleep_left, candles, shutdown_trace, ledger_vars, ws_state>>
    /\ UNCHANGED audit_vars

\* The feed connection fails or closes: stream_live_klines returns and the
\* finally of _stream_data sets the stop event.
FeedEnd(s) ==
    /\ ~hung
    /\ stream_pc[s] = "streaming"
    /\ stream_pc' = [stream_pc EXCEPT ![s] = "done"]
    /\ sm' = [sm EXCEPT ![s].stop_event = TRUE]
    /\ UNCHANGED <<session_manager, active_websocket, start_pc, loop_pc, elapsed,
                   sleep_left, candles, pending, shutdown_trace, ledger_vars,
                   socket_vars>>
    /\ UNCHANGED audit_vars

(***************************************************************************)
(* main.py: websocket_endpoint.                                            *)
(***************************************************************************)
\* accept(), then the observer is recorded and bound to an active session.
WsConnect(w) ==
    /\ ~hung
    /\ ws_state[w] = "new"
    /\ ws_state' = [ws_state EXCEPT ![w] = "open"]
    /\ active_websocket' = w
    /\ sm' = IF RegistryActive
             THEN [sm EXCEPT ![session_manager].websocket = w]
             ELSE sm
    /\ UNCHANGED audit_vars
    /\ UNCHANGED <<session_manager, start_pc, loop_pc, stream_pc, elapsed, sleep_left,
                   candles, pending, shutdown_trace, ledger_vars>>

\* The client goes away; the server has not yet seen WebSocketDisconnect.
WsBreak(w) ==
    /\ ~hung
    /\ ws_state[w] = "open"
    /\ ws_state' = [ws_state EXCEPT ![w] = "broken"]
    /\ UNCHANGED <<session_manager, active_websocket, session_vars, ledger_vars>>
    /\ UNCHANGED audit_vars

\* receive_text raises WebSocketDisconnect: the except block.
WsDisconnect(w) ==
    /\ ~hung
    /\ ws_state[w] \in {"open", "broken"}
    /\ ws_state' = [ws_state EXCEPT ![w] = "closed"]
    /\ active_websocket' = IF active_websocket = w THEN NoSocket ELSE active_websocket
    /\ sm' = IF session_manager # NoSession
             THEN [sm EXCEPT ![session_manager].websocket = NoSocket]
             ELSE sm
    /\ UNCHANGED <<session_manager, start_pc, loop_pc, stream_pc, elapsed, sleep_left,
                   candles, pending, shutdown_trace, ledger_vars>>
    /\ UNCHANGED audit_vars

(***************************************************************************)
(* The system.                                                             *)
(***************************************************************************)
StartSession ==
    \E symbol \in ReqSymbols, timeframe \in ReqTimeframes, duration \in ReqDurations :
        ~hung /\ start_session(symbol, timeframe, duration)

StopSession == ~hung /\ stop_session

Backfill == \E s \in SIDs, data \in Backfills : BackfillReturn(s, data)

Next ==
    \/ StartSession
    \/ StopSession
    \/ Backfill
    \/ \E s \in SIDs : StartReturn(s)
    \/ \E s \in SIDs : TradingLoop(s)
    \/ \E s \in SIDs, x \in BOOLEAN, c \in Prices : on_kline_update(s, x, c)
    \/ \E s \in SIDs : SendDone(s)
    \/ \E s \in SIDs : FeedEnd(s)
    \/ \E w \in WIDs : WsConnect(w)
    \/ \E w \in WIDs : WsBreak(w)
    \/ \E w \in WIDs : WsDisconnect(w)

Spec == Init /\ [][Next]_vars

\* The same system with one session and every observer connection.
SpecObservers == InitObservers /\ [][Next]_vars

\* The scheduling asyncio guarantees: a task that can run does run, an awaited
\* call returns.  The feed is the environment: it may stay connected for ever.
Fairness ==
    /\ \A s \in SIDs : WF_vars(TradingLoop(s))
    /\ \A s \in SIDs : WF_vars(SendDone(s))
    /\ \A s \in SIDs : WF_vars(StartReturn(s))
    /\ WF_vars(Backfill)

FairSpec == SpecObservers /\ Fairness

\* The observer that is connected before the session starts.
FirstObserver == 1

\* A first observer is connected and start_session has been accepted: the session
\* is bound to that observer and start_trading awaits the backfill.  Every
\* observer that connects from here on is bound while the session is Running.
InitRebind ==
    /\ session_manager = 1
    /\ active_websocket = FirstObserver
    /\ sm = [s \in SIDs |->
                IF s = 1
                THEN [symbol |-> "BTCUSDT", timeframe |-> "1m", duration |-> 6,
                      websocket |-> FirstObserver, is_active |-> TRUE,
                      stop_event |-> FALSE, closes |-> <<>>]
                ELSE NoObject]
    /\ start_pc = [s \in SIDs |-> IF s = 1 THEN "backfill" ELSE "unused"]
    /\ loop_pc = [s \in SIDs |-> "none"]
    /\ stream_pc = [s \in SIDs |-> "none"]
    /\ elapsed = [s \in SIDs |-> 0]
    /\ sleep_left = [s \in SIDs |-> 0]
    /\ candles = 0
    /\ pending = [s \in SIDs |-> <<>>]
    /\ ws_state = [w \in WIDs |-> IF w = FirstObserver THEN "open" ELSE "new"]
    /\ wallet_exists = TRUE
    /\ wallet = DefaultWallet
    /\ summary = <<>>
    /\ hung = FALSE
    /\ shutdown_trace = [s \in SIDs |-> <<>>]
    /\ executed = [s \in SIDs |-> 0]
    /\ call = NoCall

SpecRebind == InitRebind /\ [][Next]_vars

(***************************************************************************)
(* The functions of utils.py and strategy_engine.py called directly, as a  *)
(* unit test calls them, on every input of a bounded set: one call in a    *)
(* run, since the functions read nothing but their arguments.              *)
(***************************************************************************)
HistoryPrices == {1, 4, 5}
Histories     == UNION {[1..n -> HistoryPrices] : n \in 0..MaxHistory}
SignalPrices  == {90, 100, 110}
SignalRsis    == {25, 30, 50, 70, 75}
SignalSmas    == {100}

\* No session and no observer: only the functions run.
InitCalls == InitWith(0, 0)

CallGenerateSignal ==
    /\ call = NoCall
    /\ \E price \in SignalPrices, rsi_value \in SignalRsis, sma_value \in SignalSmas :
           call' = [fn |-> "generate_signal",
                    args |-> <<price, rsi_value, sma_value>>,
                    result |-> generate_signal(R(price), R(rsi_value), R(sma_value))]
    /\ UNCHANGED <<session_manager, active_websocket, session_vars, ledger_vars,
                   socket_vars, executed>>

CallEvaluateStrategy ==
    /\ call = NoCall
    /\ \E closes \in Histories :
           call' = [fn |-> "evaluate_strategy", args |-> <<closes>>,
                    result |-> evaluate_strategy(closes)]
    /\ UNCHANGED <<session_manager, active_websocket, session_vars, ledger_vars,
                   socket_vars, executed>>

CallCalculateRsi ==
    /\ call = NoCall
    /\ \E prices \in Histories :
           call' = [fn |-> "calculate_rsi", args |-> <<prices, rsi_period>>,
                    result |-> calculate_rsi(prices, rsi_period)]
    /\ UNCHANGED <<session_manager, active_websocket, session_vars, ledger_vars,
                   socket_vars, executed>>

NextCalls ==
    \/ CallGenerateSignal
    \/ CallEvaluateStrategy
    \/ CallCalculateRsi

SpecCalls == InitCalls /\ [][NextCalls]_vars

(***************************************************************************)
(* fake_wallet.py called directly, and by the evaluation loop of a session *)
(* that is Running, on the ledgers earlier runs have left in the file.     *)
(***************************************************************************)
\* The default ledger, one with a position of another symbol, and one with the
\* two positions a manually stopped session leaves behind.
LedgerWallets ==
    {DefaultWallet,
     buy(DefaultWallet, "ETHUSDT", R(5), R(20)).wallet,
     buy(buy(DefaultWallet, "BTCUSDT", R(4), R(25)).wallet,
         "BTCUSDT", R(4), <<45, 2>>).wallet}

\* A failed backfill, and backfills on which the strategy gives HOLD, BUY and SELL.
LedgerHistories == {<<>>, <<1, 5, 4>>, <<1, 5, 4, 4>>, <<5, 5, 5, 4>>}
CallQuantities  == {1, 300}

\* Session 1 is Running: the backfill has returned, its two tasks are about to run.
InitLedger ==
    /\ session_manager = 1
    /\ active_websocket = NoSocket
    /\ \E closes \in LedgerHistories :
           sm = [s \in SIDs |->
                   IF s = 1
                   THEN [symbol |-> "BTCUSDT", timeframe |-> "1m", duration |-> 6,
                         websocket |-> NoSocket, is_active |-> TRUE,
                         stop_event |-> FALSE, closes |-> closes]
                   ELSE NoObject]
    /\ start_pc = [s \in SIDs |-> IF s = 1 THEN "gather" ELSE "unused"]
    /\ loop_pc = [s \in SIDs |-> IF s = 1 THEN "start" ELSE "none"]
    /\ stream_pc = [s \in SIDs |-> IF s = 1 THEN "streaming" ELSE "none"]
    /\ elapsed = [s \in SIDs |-> 0]
    /\ sleep_left = [s \in SIDs |-> 0]
    /\ candles = 0
    /\ pending = [s \in SIDs |-> <<>>]
    /\ ws_state = [w \in WIDs |-> "unused"]
    /\ wallet_exists = TRUE
    /\ wallet \in LedgerWallets
    /\ summary = <<>>
    /\ hung = FALSE
    /\ shutdown_trace = [s \in SIDs |-> <<>>]
    /\ executed = [s \in SIDs |-> 0]
    /\ call = NoCall

CallBuy ==
    /\ Len(wallet.trade_history) < MaxTrades
    /\ \E symbol \in valid_symbols, price \in Prices, quantity \in CallQuantities :
           LET outcome == buy(wallet, symbol, R(price), R(quantity))
           IN  /\ wallet' = outcome.wallet
               /\ call' = [fn |-> "buy", args |-> <<symbol, price, quantity>>,
                           result |-> outcome.ok]
    /\ UNCHANGED <<session_manager, active_websocket, session_vars, socket_vars,
                   wallet_exists, summary, hung, executed>>

CallSell ==
    /\ Len(wallet.trade_history) < MaxTrades
    /\ \E symbol \in valid_symbols, price \in Prices :
           LET outcome == sell(wallet, symbol, R(price))
           IN  /\ wallet' = outcome.wallet
               /\ call' = [fn |-> "sell", args |-> <<symbol, price>>,
                           result |-> outcome.ok]
    /\ UNCHANGED <<session_manager, active_websocket, session_vars, socket_vars,
                   wallet_exists, summary, hung, executed>>

NextLedger ==
    \/ CallBuy
    \/ CallSell
    \/ \E s \in SIDs : TradingLoop(s)

SpecLedger == InitLedger /\ [][NextLedger]_vars

(***************************************************************************)
(* Properties.                                                             *)
(***************************************************************************)
Last(s) == s[Len(s)]

\* The open positions of the ledger `w` for `symbol`.
OpenFor(w, symbol) == SelectSeq(w.open_positions, LAMBDA p : p.symbol = symbol)

\* The session is Stopped: is_active is false and its evaluation loop has exited.
Stopped(s) == ~sm[s].is_active /\ loop_pc[s] = "done"

\* C1: whenever a session reaches Stopped, by whatever exit, the ledger holds no
\* open position for the session's symbol.
C1_NoOpenPositionWhenStopped ==
    [][\A s \in SIDs :
          (loop_pc[s] # "done" /\ loop_pc'[s] = "done")
              => OpenFor(wallet', sm[s].symbol) = <<>>]_vars

\* C2: once the streaming loop of a session has ended, the next resumption of its
\* evaluation loop exits the loop: it does not evaluate, trade and sleep again.
C2_FeedEndStopsEvaluation ==
    [][\A s \in SIDs :
          (stream_pc[s] = "done" /\ TradingLoop(s) /\ ~hung')
              => loop_pc'[s] = "done"]_vars

\* C3: a start_session handled while a session is active changes nothing: the
\* registry references the same session, and that session's fields, its tasks
\* and every other session are as before.
C3_StartWhileActiveRejected ==
    [][(RegistryActive /\ StartSession)
          => /\ session_manager' = session_manager
             /\ sm'[session_manager] = sm[session_manager]
             /\ UNCHANGED <<session_vars, active_websocket>>]_vars

C3_Witness ==
    /\ RegistryActive
    /\ loop_pc[session_manager] = "sleeping"
    /\ sm[session_manager].closes # <<>>
    /\ ENABLED StartSession

\* C4: at most one SessionManager has is_active = true.
C4_AtMostOneRunning == Cardinality({s \in SIDs : sm[s].is_active}) <= 1

\* A second session is Running while the loops of the first are still alive.
C4_Witness ==
    \E s, u \in SIDs :
        /\ s # u
        /\ sm[u].is_active
        /\ loop_pc[u] = "sleeping"
        /\ loop_pc[s] = "sleeping"
        /\ stream_pc[s] = "streaming"

\* C5: when stop_session returns ok (the step that clears the registry), the
\* stopped session's evaluation loop has finished its shutdown sequence.
C5_StopWaitsForShutdown ==
    [][(RegistryActive /\ session_manager' = NoSession)
          => loop_pc'[session_manager] = "done"]_vars

\* The session was asked to stop and start_trading has not returned.
Stopping(s) ==
    /\ start_pc[s] \in {"backfill", "gather"}
    /\ sm[s].stop_event
    /\ ~sm[s].is_active

\* C6: after stop_trading both loops terminate and start_trading returns, whatever
\* the feed does (stated for a ledger file that exists).
C6_StopTerminatesBothLoops ==
    \A s \in SIDs : (Stopping(s) /\ wallet_exists) ~> (start_pc[s] = "returned")

\* C7: the history never holds more than the cap, and an append to a full history
\* drops exactly the oldest close and puts the new one last.
C7_HistoryBounded ==
    /\ [](\A s \in SIDs : Len(sm[s].closes) <= HistoryCap)
    /\ [][\A s \in SIDs :
             (Len(sm[s].closes) = HistoryCap /\ sm'[s].closes # sm[s].closes)
                 => \E c \in Prices : sm'[s].closes = Tail(sm[s].closes) \o <<c>>]_vars

\* A full history that has lost the first close of its backfill.
C7_Witness ==
    \E s \in SIDs :
        /\ Len(sm[s].closes) = HistoryCap
        /\ candles = 2
        /\ Head(sm[s].closes) = 5

\* C8: a session whose evaluation loop has exited has gone through liquidation
\* attempt, summary generation and the transition to Stopped, once and in that order.
C8_ShutdownSequence ==
    \A s \in SIDs :
        loop_pc[s] = "done" => shutdown_trace[s] = <<"sell", "summary", "stopped">>

\* C9: a push that fails clears the session's observer reference and nothing else:
\* the close stays in the history, the streaming loop goes back to the feed, the
\* evaluation loop and is_active are untouched.
C9_FailedPushOnlyClearsObserver ==
    [][\A s \in SIDs :
          (/\ stream_pc[s] = "sending"
           /\ stream_pc'[s] # "sending"
           /\ ws_state[pending[s][1]] # "open")
              => /\ sm'[s] = [sm[s] EXCEPT !.websocket = NoSocket]
                 /\ Last(sm'[s].closes) = pending[s][2].price
                 /\ stream_pc'[s] = "streaming"
                 /\ \A u \in SIDs \ {s} : sm'[u] = sm[u]
                 /\ UNCHANGED <<loop_pc, start_pc, elapsed, sleep_left, session_manager,
                                ledger_vars, shutdown_trace>>]_vars

\* A Running session has lost its observer to a failed push (the handler of the
\* disconnect has not run: the socket is still "broken") and streams on.
C9_Witness ==
    \E s \in SIDs, w \in WIDs :
        /\ sm[s].is_active
        /\ ws_state[w] = "broken"
        /\ active_websocket = w
        /\ sm[s].websocket = NoSocket
        /\ stream_pc[s] = "streaming"
        /\ loop_pc[s] = "sleeping"

\* C10: a stop_session handled when no session is active changes nothing.
C10_StopWithoutSessionRejected ==
    [][(~RegistryActive /\ StopSession) => UNCHANGED vars]_vars

\* The registry still references a session that has expired and written its summary.
C10_Witness ==
    /\ session_manager # NoSession
    /\ Stopped(session_manager)
    /\ summary # <<>>
    /\ ENABLED StopSession

\* A request outside the allow-lists or with a non-positive duration.
BadRequest(symbol, timeframe, duration) ==
    \/ Upper(symbol) \notin valid_symbols
    \/ Lower(timeframe) \notin valid_timeframes
    \/ duration <= 0

\* C11: a start_session with a symbol or a timeframe outside the allow-list or with
\* duration <= 0 changes nothing (no object, no loop, same registry), so every
\* SessionManager that exists was built from a valid request.
C11_InvalidRequestRejected ==
    /\ [](\A s \in SIDs :
            start_pc[s] \notin {"none", "unused"}
                => /\ sm[s].symbol \in valid_symbols
                   /\ sm[s].timeframe \in valid_timeframes
                   /\ sm[s].duration > 0)
    /\ [][\A symbol \in ReqSymbols, timeframe \in ReqTimeframes, duration \in ReqDurations :
             (/\ ~hung
              /\ BadRequest(symbol, timeframe, duration)
              /\ start_session(symbol, timeframe, duration))
                 => UNCHANGED vars]_vars

\* No session is active, an observer waits, and a request is being handled: a
\* valid one would be accepted here.
C11_Witness ==
    /\ ~RegistryActive
    /\ Unborn # {}
    /\ active_websocket # NoSocket
    /\ ENABLED StartSession

\* C12: the summary written when a session ends has a trades count equal to the
\* number of buy and sell operations that session executed.
C12_SummaryCountsSessionTrades ==
    [][\A s \in SIDs :
          (loop_pc[s] # "done" /\ loop_pc'[s] = "done")
              => Last(summary').trades = executed'[s]]_vars

\* The positions of the ledger `w` for the symbols other than `symbol`.
OthersThan(w, symbol) == SelectSeq(w.open_positions, LAMBDA p : p.symbol # symbol)

\* C13: when a session with two open positions of its symbol stops, both are sold:
\* no position of the symbol is left, the other positions are as before, the
\* history gains two SELL records with profit_loss = price*quantity -
\* entry_price*quantity, and the balance grows by the two revenues.
C13_StopLiquidatesBothPositions ==
    [][\A s \in SIDs :
          (/\ loop_pc[s] # "done"
           /\ loop_pc'[s] = "done"
           /\ Len(OpenFor(wallet, sm[s].symbol)) = 2)
              => LET symbol == sm[s].symbol
                     pos    == OpenFor(wallet, symbol)
                     before == Len(wallet.trade_history)
                     rec(i) == wallet'.trade_history[before + i]
                 IN  /\ OpenFor(wallet', symbol) = <<>>
                     /\ OthersThan(wallet', symbol) = OthersThan(wallet, symbol)
                     /\ Len(wallet'.trade_history) = before + 2
                     /\ SubSeq(wallet'.trade_history, 1, before) = wallet.trade_history
                     /\ \A i \in 1..2 :
                           /\ rec(i).action = "SELL"
                           /\ rec(i).symbol = symbol
                           /\ rec(i).quantity = pos[i].quantity
                           /\ rec(i).profit_loss =
                                  RSub(RMul(rec(i).price, pos[i].quantity),
                                       RMul(pos[i].entry_price, pos[i].quantity))
                     /\ wallet'.balance =
                            RAdd(wallet.balance,
                                 RAdd(RMul(rec(1).price, pos[1].quantity),
                                      RMul(rec(2).price, pos[2].quantity)))]_vars

\* C14: BUY if RSI < 30 and price > SMA; otherwise SELL if RSI > 70 or price < SMA;
\* otherwise HOLD; (RSI 25, price 110, SMA 100) is BUY, (75, 90, 100) is SELL and
\* (50, 100, 100) is HOLD.
C14_SignalRule ==
    call.fn = "generate_signal"
        => LET price == call.args[1]
               rsi   == call.args[2]
               sma   == call.args[3]
           IN  /\ call.result = IF rsi < 30 /\ price > sma THEN "BUY"
                                ELSE IF rsi > 70 \/ price < sma THEN "SELL"
                                ELSE "HOLD"
               /\ call.args = <<110, 25, 100>> => call.result = "BUY"
               /\ call.args = <<90, 75, 100>> => call.result = "SELL"
               /\ call.args = <<100, 50, 100>> => call.result = "HOLD"

\* RSI on the lower threshold and price above the SMA: not a BUY.
C14_Witness ==
    /\ call.fn = "generate_signal"
    /\ call.args = <<110, 30, 100>>
    /\ call.result = "HOLD"

\* C15: on a history shorter than max(sma_period, rsi_period) evaluate_strategy
\* returns HOLD with both indicators None; on a longer one both are defined (they
\* are the RSI and the SMA of the history).
C15_ShortHistoryHolds ==
    call.fn = "evaluate_strategy"
        => LET closes == call.args[1]
           IN  IF Len(closes) < Max(sma_period, rsi_period)
               THEN call.result = <<"HOLD", None, None>>
               ELSE /\ call.result[2] # None
                    /\ call.result[3] # None
                    /\ call.result[2] = calculate_rsi(closes, rsi_period)
                    /\ call.result[3] = calculate_sma(closes, sma_period)

\* A history one close short of the minimum, which would be a BUY with one more.
C15_Witness ==
    /\ call.fn = "evaluate_strategy"
    /\ Len(call.args[1]) = Max(sma_period, rsi_period) - 1
    /\ call.args[1] # <<>>
    /\ call.result = <<"HOLD", None, None>>
    /\ evaluate_strategy(Append(call.args[1], 4))[1] = "BUY"

\* In the last `period` deltas of `prices` no close is below the one before it.
NoLossInWindow(prices, period) ==
    \A i \in 1..(Len(prices) - 1) :
        i > Len(prices) - 1 - period => prices[i + 1] >= prices[i]

\* C18: the RSI of a history of at least period + 1 closes is in [0, 100], and it is
\* 100 exactly when the average loss over the last `period` deltas is 0.
C18_RsiRange ==
    (call.fn = "calculate_rsi" /\ Len(call.args[1]) >= call.args[2] + 1)
        => /\ RLeq(RZero, call.result)
           /\ RLeq(call.result, R(100))
           /\ call.result = R(100) <=> NoLossInWindow(call.args[1], call.args[2])

\* RSI 100 on a history that fell before the window and not inside it.
C18_Witness ==
    /\ call.fn = "calculate_rsi"
    /\ Len(call.args[1]) > call.args[2] + 1
    /\ call.args[1][1] > call.args[1][2]
    /\ call.result = R(100)

\* C16: a buy that costs more than the balance and a sell without an open position
\* of the symbol return False and leave the ledger as it was, and an iteration of
\* the evaluation loop whose sell fails goes on to its sleep with the session Running.
C16_FailedOperationIsNoOp ==
    [][/\ (/\ call' # call
           /\ call'.fn = "buy"
           /\ RLt(wallet.balance, RMul(R(call'.args[2]), R(call'.args[3]))))
              => (call'.result = FALSE /\ wallet' = wallet)
       /\ (/\ call' # call
           /\ call'.fn = "sell"
           /\ OpenFor(wallet, call'.args[1]) = <<>>)
              => (call'.result = FALSE /\ wallet' = wallet)
       /\ \A s \in SIDs :
             (/\ TradingLoop(s)
              /\ LoopContinues(s)
              /\ Len(sm[s].closes) >= MinPoints
              /\ evaluate_strategy(sm[s].closes)[1] = "SELL"
              /\ OpenFor(wallet, sm[s].symbol) = <<>>)
                 => /\ wallet' = wallet
                    /\ executed' = executed
                    /\ loop_pc'[s] = "sleeping"
                    /\ sleep_left'[s] = EvalSleep
                    /\ sm'[s].is_active]_vars

\* A direct buy has failed, and the loop sleeps after an iteration whose SELL found
\* no position to sell.
C16_Witness ==
    /\ call.fn = "buy"
    /\ call.result = FALSE
    /\ \E s \in SIDs :
          /\ loop_pc[s] = "sleeping"
          /\ sleep_left[s] = EvalSleep
          /\ evaluate_strategy(sm[s].closes)[1] = "SELL"
          /\ executed[s] = 0
          /\ wallet.trade_history = <<>>

\* The accept of observer `w` binds it to the Running session.
Rebinds(w) == RegistryActive /\ WsConnect(w)

\* The streaming loop of `s` takes a closed candle.
ClosedCandle(s) == \E c \in Prices : on_kline_update(s, TRUE, c)

\* C17: binding an observer to a Running session changes the session's observer
\* slot and nothing else of the session, its loops or the ledger, and the next
\* closed candle of the session is pushed to that observer (while it is connected
\* and no later observer has been bound).
C17_RebindOnlyChangesObserver ==
    [][/\ \A w \in WIDs :
             Rebinds(w)
                 => /\ sm'[session_manager] = [sm[session_manager] EXCEPT !.websocket = w]
                    /\ UNCHANGED <<session_manager, start_pc, loop_pc, stream_pc, elapsed,
                                   sleep_left, candles, pending, shutdown_trace,
                                   ledger_vars, executed>>
       /\ \A s \in SIDs, w \in WIDs \ {FirstObserver} :
             (/\ ClosedCandle(s)
              /\ sm[s].is_active
              /\ active_websocket = w
              /\ ws_state[w] \in {"open", "broken"})
                 => (pending'[s] # <<>> /\ pending'[s][1] = w)]_vars

\* One pass of the while body of the evaluation loop of `s`.
Iteration(s) == LoopContinues(s) /\ TradingLoop(s)

\* The signal that pass acts on; "NONE" while it only waits for two closes.
IterationSignal(s) ==
    IF Len(sm[s].closes) < MinPoints THEN "NONE" ELSE evaluate_strategy(sm[s].closes)[1]

\* The records a step appends to the trade history.
NewRecords ==
    SubSeq(wallet'.trade_history, Len(wallet.trade_history) + 1, Len(wallet'.trade_history))

\* C19: a pass of the evaluation loop touches the ledger only on an actionable
\* signal: BUY records are written only on BUY, SELL records only on SELL, and on
\* any other pass (HOLD, which includes every history shorter than the SMA
\* period, and the wait for two closes) the ledger is unchanged.
C19_LedgerOnlyOnActionableSignal ==
    [][\A s \in SIDs :
          Iteration(s)
              => /\ Len(sm[s].closes) < sma_period => IterationSignal(s) \in {"HOLD", "NONE"}
                 /\ IterationSignal(s) \in {"HOLD", "NONE"} => UNCHANGED <<ledger_vars, executed>>
                 /\ Len(wallet'.trade_history) >= Len(wallet.trade_history)
                 /\ SubSeq(wallet'.trade_history, 1, Len(wallet.trade_history))
                        = wallet.trade_history
                 /\ \A i \in 1..Len(NewRecords) : NewRecords[i].action = IterationSignal(s)
                 /\ executed'[s] # executed[s] => IterationSignal(s) \in {"BUY", "SELL"}]_vars

\* A pass on HOLD has just ended while the session holds an open position.
C19_Witness ==
    \E s \in SIDs :
        /\ loop_pc[s] = "sleeping" /\ sleep_left[s] = EvalSleep
        /\ sm[s].is_active
        /\ IterationSignal(s) = "HOLD"
        /\ \E i \in 1..Len(wallet.open_positions) : wallet.open_positions[i].symbol = sm[s].symbol

\* start_trading stores the backfill of `s`.
BackfillStored(s) == start_pc[s] = "backfill" /\ start_pc'[s] = "gather"

\* The step hands a snapshot of `s` to send_text.
Emits(s) == pending'[s] # pending[s] /\ pending'[s] # <<>>

C21_LoadWalletTerminates == ~hung

\* Session `u` was accepted after session `s` and is Running.
RunningAfter(u, s) == s < u /\ sm[u].is_active

\* C22: while a later session is Running, the loops of an earlier session do
\* nothing any more: no closed candle appended, no snapshot handed to an observer,
\* no pass or shutdown sequence of its evaluation loop (ledger operation, summary).
C22_EarlierLoopsAreDead ==
    [][\A s, u \in SIDs :
          RunningAfter(u, s)
              => /\ ~ClosedCandle(s)
                 /\ ~Emits(s)
                 /\ ~TradingLoop(s)]_vars

\* The handler of the disconnect of `w` runs while the registered session is
\* bound to another observer.
StaleDisconnect(w) ==
    /\ WsDisconnect(w)
    /\ session_manager # NoSession
    /\ sm[session_manager].websocket \notin {w, NoSocket}

\* C23: the disconnect of an observer that is not the bound one leaves the
\* session's observer slot and the last accepted observer as they are.
C23_StaleDisconnectKeepsObserver ==
    [][\A w \in WIDs :
          StaleDisconnect(w)
              => /\ sm'[session_manager].websocket = sm[session_manager].websocket
                 /\ (active_websocket # w => active_websocket' = active_websocket)]_vars

\* C24: the balance is never negative, and the trade history only grows: every
\* step keeps the records it found, in order, and may append to them.
C24_BalanceNeverNegative ==
    /\ [](RLeq(RZero, wallet.balance))
    /\ [][/\ Len(wallet'.trade_history) >= Len(wallet.trade_history)
          /\ SubSeq(wallet'.trade_history, 1, Len(wallet.trade_history))
                 = wallet.trade_history]_vars

\* A session has bought twice at 10% of the balance and its shutdown sequence has
\* liquidated both positions.
C24_Witness ==
    \E s \in SIDs :
        /\ loop_pc[s] = "done"
        /\ executed[s] >= 3
        /\ Len(wallet.trade_history) >= 4
        /\ OpenFor(wallet, sm[s].symbol) = <<>>
        /\ wallet.trade_history[Len(wallet.trade_history)].action = "SELL"

====
